---- MODULE Spec2Model ----
(***************************************************************************)
(* LoyaltyLink: the loyalty-state transition engine.                       *)
(*                                                                         *)
(* The engine is a set of PostgreSQL trigger functions.  A row insert and  *)
(* the trigger cascade it fires run in one transaction; each session       *)
(* below runs one transaction at a time, statement by statement.  A        *)
(* transaction's writes are kept in its own record until Commit publishes  *)
(* them, so the table variables always hold the committed state (READ      *)
(* COMMITTED: every statement reads the committed tables plus the          *)
(* transaction's own writes).                                              *)
(*                                                                         *)
(* Money is counted in hundredths (NUMERIC(10,2)): 1000 is 10.00.  Time    *)
(* is counted in days.  A nullable column holds NULL or Some(v).           *)
(***************************************************************************)
EXTENDS Integers, Sequences, FiniteSets, TLC

\* ------------------------------------------------------------------ bounds
MaxVisits == 3
MaxProfiles == 4
MaxOrders == 2
MaxNow == 30
MaxDemoRuns == 2

\* ------------------------------------------------------ nullable values
NULL == {}
Some(v) == {v}
The(x) == CHOOSE v \in x : TRUE

Max2(a, b) == IF a >= b THEN a ELSE b
\* A variant that takes the larger of the two.
Greatest(a, b) == IF a <= b THEN b ELSE a
Least(a, b) == IF a <= b THEN a ELSE b
Abs(n) == IF n >= 0 THEN n ELSE -n

\* ROUND(n / d) of PostgreSQL numeric: half away from zero (d > 0).
RoundDiv(n, d) ==
  IF n >= 0 THEN (2 * n + d) \div (2 * d) ELSE -((2 * (-n) + d) \div (2 * d))

\* -------------------------------------------------------- fixed domains
Sessions == {"s1", "s2"}
ProfileIds == 1..MaxProfiles
InitialProfiles == {1, 2}
Codes == {"AAAA1111", "BBBB2222", "CCCC3333", "DDDD4444", "EEEE5555"}
Subtotals == {2500}

\* ------------------------------------------------------- program constants
ExpirationDays == 30
DefaultMilestoneFrequency == 6
DefaultMilestoneRewardValue == 1000
DefaultReferralRewardValue == 1500

Thresholds(bronze_max, silver_min, silver_max, gold_min) ==
  [bronze |-> [min |-> 0, max |-> bronze_max],
   silver |-> [min |-> silver_min, max |-> silver_max],
   gold |-> [min |-> gold_min]]

DefaultTierThresholds == Thresholds(9, 10, 19, 20)

GraduationReward(type, value, title) ==
  [reward_type |-> type, reward_value |-> value, reward_title |-> title]

DefaultGraduationRewards ==
  [bronze_to_silver |-> GraduationReward("fixed", 1000, <<"Upgraded to Silver Tier!">>),
   silver_to_gold |-> GraduationReward("fixed", 1500, <<"Upgraded to Gold Tier!">>)]

\* ------------------------------- values the administration surface stores
ThresholdChoices == {DefaultTierThresholds, Thresholds(0, 1, 1, 2)}

GraduationChoices ==
  {DefaultGraduationRewards,
   [bronze_to_silver |-> GraduationReward("percentage", 1250, <<"Silver: percent off">>),
    silver_to_gold |-> GraduationReward("fixed", 2000, <<"Gold: amount off">>)]}

OtherRewards(frequency, milestone_value, referral_value) ==
  [milestone_frequency |-> frequency, milestone_reward_value |-> milestone_value,
   referral_reward_value |-> referral_value, reward_expiration_days |-> 30]

OtherRewardChoices ==
  {OtherRewards(6, 1000, 1500), OtherRewards(2, -500, 2000), OtherRewards(0, 1000, 1500)}

VARIABLES
  profiles,          \* profile id -> NULL or Some(profile row)
  user_roles,        \* set of <<user id, role>>
  customer_stats,    \* profile id -> NULL or Some(stats row)
  visits,            \* set of visit rows
  rewards,           \* set of reward rows
  referrals,         \* set of referral rows
  orders,            \* set of order rows
  system_settings,   \* setting key -> NULL or Some(value)
  now,               \* the clock, in days
  txn,               \* session -> the transaction it is running
  result,            \* what the last call returned to its caller
  viewed_orders,     \* staff session -> the order rows its dashboard shows
  listed_rewards     \* customer session -> the reward rows its ordering page lists

vars == <<profiles, user_roles, customer_stats, visits, rewards, referrals,
          orders, system_settings, now, txn, result, viewed_orders, listed_rewards>>

tables == <<profiles, user_roles, customer_stats, visits, rewards, referrals, orders>>

\* ------------------------------------------------------------- the schema
Tiers == {"bronze", "silver", "gold"}

\* rewards: the columns of CREATE TABLE plus those the reward-value
\* migration adds; status defaults to 'available', expiration_date to
\* now() + 30 days.
RewardRow(id, customer_id, reward_type, reward_title, milestone_visits, is_referral_reward, reward_value, discount_percentage) ==
  [id |-> id,
   customer_id |-> customer_id,
   reward_type |-> reward_type,
   reward_title |-> reward_title,
   milestone_visits |-> milestone_visits,
   is_birthday_reward |-> FALSE,
   is_referral_reward |-> is_referral_reward,
   status |-> "available",
   reward_value |-> reward_value,
   discount_percentage |-> discount_percentage,
   minimum_order_value |-> Some(0),
   expiration_date |-> Some(now + ExpirationDays),
   claimed_at |-> NULL,
   claimed_by_staff_id |-> NULL,
   applied_to_order_id |-> NULL]

StatsRow(total_visits, current_tier) ==
  [total_visits |-> total_visits, current_tier |-> current_tier]

\* ------------------------------------------------------- Settings Store
Setting(settings, key, default) ==
  IF settings[key] = NULL THEN default ELSE The(settings[key])

TierThresholdsOf(settings) == Setting(settings, "tier_thresholds", DefaultTierThresholds)
GraduationRewardsOf(settings) ==
  Setting(settings, "tier_graduation_rewards", DefaultGraduationRewards)
MilestoneFrequencyOrTen(settings) == Setting(settings, "milestone_frequency", 10)

MilestoneFrequencyOf(settings) ==
  Setting(settings, "milestone_frequency", DefaultMilestoneFrequency)
MilestoneRewardValueOf(settings) ==
  Setting(settings, "milestone_reward_value", DefaultMilestoneRewardValue)
\* A variant that ignores the stored referral_reward_value.
ReferralRewardValueFixed(settings) ==
  Setting([settings EXCEPT !.referral_reward_value = NULL], "referral_reward_value",
          DefaultReferralRewardValue)
ReferralRewardValueOf(settings) ==
  Setting(settings, "referral_reward_value", DefaultReferralRewardValue)

\* ------------------------------------------------------- Tier Evaluator
\* update_customer_tier: the tier the visit count falls in, gold first.
NewTier(visit_count, tier_thresholds) ==
  IF visit_count >= tier_thresholds.gold.min THEN "gold"
  ELSE IF visit_count >= tier_thresholds.silver.min THEN "silver"
  ELSE "bronze"

\* update_customer_tier: the graduation definition picked with the tier.
UpgradeConfig(visit_count, tier_thresholds, graduation_rewards) ==
  IF visit_count >= tier_thresholds.gold.min THEN Some(graduation_rewards.silver_to_gold)
  ELSE IF visit_count >= tier_thresholds.silver.min
       THEN Some(graduation_rewards.bronze_to_silver)
  ELSE NULL

\* update_customer_tier: the condition under which the stats row is updated
\* and the reward inserted.
TierWriteCondition(new_tier, current_tier, upgrade_config) ==
  new_tier # current_tier /\ upgrade_config # NULL

\* update_customer_tier: the reward row inserted for an upgrade_config.
GraduationRewardRows(id, customer_profile_id, upgrade_config) ==
  IF upgrade_config.reward_type = "fixed"
  THEN {RewardRow(id, customer_profile_id, "tier_upgrade", upgrade_config.reward_title,
                  NULL, FALSE, Some(upgrade_config.reward_value), NULL)}
  ELSE IF upgrade_config.reward_type = "percentage"
  THEN {RewardRow(id, customer_profile_id, "tier_upgrade", upgrade_config.reward_title,
                  NULL, FALSE, NULL, Some(RoundDiv(upgrade_config.reward_value, 100)))}
  ELSE {}

\* update_customer_tier(customer_profile_id) on the stats row the
\* transaction sees: the row it leaves and the reward rows it inserts.
UpdateCustomerTier(customer_profile_id, row, settings, id) ==
  LET tier_thresholds == TierThresholdsOf(settings)
      graduation_rewards == GraduationRewardsOf(settings)
      visit_count == row.total_visits
      current_tier == row.current_tier
      new_tier == NewTier(visit_count, tier_thresholds)
      upgrade_config == UpgradeConfig(visit_count, tier_thresholds, graduation_rewards)
  IN IF TierWriteCondition(new_tier, current_tier, upgrade_config)
     THEN [row |-> [row EXCEPT !.current_tier = new_tier],
           inserted |-> GraduationRewardRows(id, customer_profile_id, The(upgrade_config))]
     ELSE [row |-> row, inserted |-> {}]

\* -------------------------------------------------- Milestone Evaluator
\* check_milestone_rewards: visit_count % milestone_freq raises
\* division_by_zero when the frequency is 0.
MilestoneFault(visit_count, milestone_freq) == milestone_freq = 0

\* A variant that tests the count against the default frequency instead of
\* the frequency read from system_settings.
IsMilestoneByDefault(visit_count, milestone_freq) ==
  visit_count > 0 /\ visit_count % DefaultMilestoneFrequency = 0

\* check_milestone_rewards: visit_count > 0 AND visit_count % milestone_freq = 0
IsMilestone(visit_count, milestone_freq) ==
  visit_count > 0 /\ visit_count % Abs(milestone_freq) = 0

\* A variant without the idempotency guard: no existing reward is ever found.
MilestoneRewardUnguarded(seen, customer_profile_id, visit_count) ==
  \E r \in seen : r.customer_id = customer_profile_id /\ r.milestone_visits = NULL /\ r.milestone_visits = Some(visit_count)

\* check_milestone_rewards: the EXISTS subquery of the idempotency guard.
MilestoneRewardExists(seen, customer_profile_id, visit_count) ==
  \E r \in seen :
    /\ r.customer_id = customer_profile_id
    /\ r.milestone_visits = Some(visit_count)
    /\ r.is_birthday_reward = FALSE
    /\ r.is_referral_reward = FALSE

\* A variant whose existence check also matches the customer's reward rows
\* that carry no milestone_visits.
CheckMilestoneRewardsNullMatches(customer_profile_id, row, seen, settings, id) ==
  LET milestone_freq == MilestoneFrequencyOf(settings)
      reward_val == MilestoneRewardValueOf(settings)
      visit_count == row.total_visits
  IN IF /\ IsMilestone(visit_count, milestone_freq)
        /\ ~\E r \in seen : /\ r.customer_id = customer_profile_id
                            /\ r.milestone_visits \in {NULL, Some(visit_count)}
                            /\ r.is_birthday_reward = FALSE
                            /\ r.is_referral_reward = FALSE
     THEN {RewardRow(id, customer_profile_id, "milestone",
                     <<"Milestone Reward - ", visit_count, " Visits!">>,
                     Some(visit_count), FALSE, Some(reward_val), NULL)}
     ELSE {}

\* check_milestone_rewards(customer_profile_id): the reward rows it inserts,
\* given the reward rows the transaction sees.
CheckMilestoneRewards(customer_profile_id, row, seen, settings, id) ==
  LET milestone_freq == MilestoneFrequencyOf(settings)
      reward_val == MilestoneRewardValueOf(settings)
      visit_count == row.total_visits
  IN IF /\ IsMilestone(visit_count, milestone_freq)
        /\ ~MilestoneRewardExists(seen, customer_profile_id, visit_count)
     THEN {RewardRow(id, customer_profile_id, "milestone",
                     <<"Milestone Reward - ", visit_count, " Visits!">>,
                     Some(visit_count), FALSE, Some(reward_val), NULL)}
     ELSE {}

\* -------------------------------------------------------- Visit Recorder
\* A variant whose conflict branch leaves total_visits as it was.
UpsertStatsKeepsCount(existing) ==
  IF existing = NULL THEN StatsRow(1, "bronze") ELSE The(existing)

\* handle_new_visit: INSERT ... ON CONFLICT (customer_id) DO UPDATE.
UpsertStats(existing) ==
  IF existing = NULL THEN StatsRow(1, "bronze")
  ELSE [The(existing) EXCEPT !.total_visits = @ + 1]

\* ------------------------------------------------- Referral Code Generator
\* generate_referral_code: a random code; the loop repeats while a profile
\* already holds the code drawn.
GeneratedCodes(profs) ==
  {code \in Codes : ~\E p \in ProfileIds : profs[p] # NULL /\ The(profs[p]).referral_code = code}

\* A variant that credits the oldest profile when no profile holds the code.
ReferrerOrOldest(profs, referred_by_code) ==
  LET matching == {p \in ProfileIds :
                     profs[p] # NULL /\ Some(The(profs[p]).referral_code) = referred_by_code}
  IN IF matching = {} THEN Some(1) ELSE Some(The(matching))

\* ------------------------------------------------------ Referral Resolver
\* handle_new_user: SELECT id INTO referrer_profile_id FROM profiles WHERE
\* referral_code = <the code supplied>; NULL when no row matches.
ReferrerProfileId(profs, referred_by_code) ==
  LET matching == {p \in ProfileIds :
                     profs[p] # NULL /\ Some(The(profs[p]).referral_code) = referred_by_code}
  IN IF matching = {} THEN NULL ELSE Some(The(matching))

ProfileRow(id, referral_code, referred_by_code) ==
  [id |-> id, user_id |-> id, referral_code |-> referral_code,
   referred_by_code |-> referred_by_code]

\* handle_new_user: the tables after the trigger ran for a new auth user
\* whose metadata carries referred_by_code (NULL when none was supplied).
HandleNewUser(new_profile_id, referral_code, referred_by_code, reward_id) ==
  LET profs == [profiles EXCEPT ![new_profile_id] =
                  Some(ProfileRow(new_profile_id, referral_code, referred_by_code))]
      roles == user_roles \cup {<<new_profile_id, "customer">>}
      referrer_profile_id ==
        IF referred_by_code # NULL THEN ReferrerProfileId(profs, referred_by_code) ELSE NULL
      referral_reward_val == ReferralRewardValueOf(system_settings)
  IN IF referrer_profile_id # NULL
     THEN [profiles |-> profs, user_roles |-> roles,
           referrals |-> referrals \cup
             {[referrer_id |-> The(referrer_profile_id), referred_id |-> new_profile_id,
               referral_code |-> The(referred_by_code), reward_granted |-> TRUE]},
           rewards |-> rewards \cup
             {RewardRow(reward_id, The(referrer_profile_id), "referral", <<"Referral Bonus!">>,
                        NULL, TRUE, Some(referral_reward_val), NULL)}]
     ELSE [profiles |-> profs, user_roles |-> roles,
           referrals |-> referrals, rewards |-> rewards]

\* ------------------------------------------------ Reward Application Engine
ApplyResult(discount_amount, error_message) ==
  [discount_amount |-> discount_amount, error_message |-> error_message]

\* apply_reward_to_order: the row the first SELECT finds, if any.
ValidReward(rws, _reward_id, t) ==
  {r \in rws : /\ r.id = _reward_id
               /\ r.status = "available"
               /\ (r.expiration_date = NULL \/ The(r.expiration_date) > t)}

\* A variant that also rejects an order total equal to the minimum.
NotAboveMinimum(reward_record, _order_total) ==
  /\ reward_record.minimum_order_value # NULL
  /\ _order_total <= The(reward_record.minimum_order_value)

\* apply_reward_to_order: _order_total < reward_record.minimum_order_value
\* (not true when the minimum is NULL).
BelowMinimum(reward_record, _order_total) ==
  /\ reward_record.minimum_order_value # NULL
  /\ _order_total < The(reward_record.minimum_order_value)

\* apply_reward_to_order(_reward_id, _order_total, _order_items) at time t.
ApplyRewardToOrder(rws, _reward_id, _order_total, t) ==
  IF ValidReward(rws, _reward_id, t) = {}
  THEN ApplyResult(0, Some(<<"Reward is not available or has expired">>))
  ELSE LET reward_record == The(ValidReward(rws, _reward_id, t))
       IN IF BelowMinimum(reward_record, _order_total)
          THEN ApplyResult(0, Some(<<"Minimum order value of $",
                                     The(reward_record.minimum_order_value), " required">>))
          ELSE IF reward_record.reward_value # NULL
          THEN ApplyResult(Least(Least(The(reward_record.reward_value), _order_total),
                                 _order_total), NULL)
          ELSE IF reward_record.discount_percentage # NULL
          THEN ApplyResult(Least(RoundDiv(_order_total * The(reward_record.discount_percentage),
                                          100), _order_total), NULL)
          ELSE ApplyResult(0, Some(<<"Invalid reward configuration">>))

\* --------------------------------------------------- the ordering page
\* Order.tsx loadRewards: the customer's available, unexpired rewards.
LoadRewards(c) ==
  {r \in rewards : /\ r.customer_id = c
                   /\ r.status = "available"
                   /\ (r.expiration_date = NULL \/ The(r.expiration_date) > now)}

\* Order.tsx useMemo: the discount the page computes for the selected reward
\* (a JavaScript falsy value - null or 0 - takes the else branch).
PageDiscount(selected, subtotal) ==
  IF selected # NULL
     /\ subtotal >= (IF The(selected).minimum_order_value = NULL THEN 0
                     ELSE The(The(selected).minimum_order_value))
  THEN IF The(selected).reward_value \notin {NULL, Some(0)}
       THEN Least(The(The(selected).reward_value), subtotal)
       ELSE IF The(selected).discount_percentage \notin {NULL, Some(0)}
       THEN RoundDiv(subtotal * The(The(selected).discount_percentage), 100)
       ELSE 0
  ELSE 0

\* Order.tsx placeOrder: the row sent to the orders table.
OrderRow(id, customer_profile_id, selected, subtotal) ==
  LET discount == PageDiscount(selected, subtotal)
  IN [id |-> id,
      status |-> "pending",
      customer_profile_id |-> customer_profile_id,
      total_amount |-> Max2(0, subtotal - discount),
      applied_reward_id |-> IF selected = NULL THEN NULL ELSE Some(The(selected).id),
      discount_amount |-> IF discount > 0 THEN discount ELSE 0,
      original_amount |-> IF discount > 0 THEN Some(subtotal) ELSE NULL,
      delivered_at |-> NULL]

VisitRow(id, customer_id, logged_by_staff_id, notes) ==
  [id |-> id, customer_id |-> customer_id,
   logged_by_staff_id |-> logged_by_staff_id, notes |-> notes]

\* ------------------------------------------------------------ transactions
\* What a call returned: its outcome and, for apply_reward_to_order, the
\* arguments and the row returned.
Returned(outcome, applied) == [outcome |-> outcome, applied |-> applied]
Idle ==
  [pc |-> "idle", customer_id |-> NULL, visit |-> NULL, order |-> NULL,
   row |-> NULL, inserted |-> {}, claimed |-> NULL, profile |-> NULL]

Quiet == \A s \in Sessions : txn[s].pc = "idle"

\* gen_random_uuid(): an id no committed or pending row of the table holds.
FreshId(used) ==
  CHOOSE n \in 1..(Cardinality(used) + 1) : n \notin used /\ \A m \in 1..(n - 1) : m \in used

FreshVisitId ==
  FreshId({v.id : v \in visits} \cup {The(txn[s].visit).id : s \in {t \in Sessions : txn[t].visit # NULL}})
FreshOrderId ==
  FreshId({o.id : o \in orders} \cup {The(txn[s].order).id : s \in {t \in Sessions : txn[t].order # NULL}})
FreshRewardId ==
  FreshId({r.id : r \in rewards} \cup UNION {{r.id : r \in txn[s].inserted} : s \in Sessions})

VisitsOf(c) == Cardinality({v \in visits : v.customer_id = c})

InitialVisits(c) == IF c = 2 THEN 9 ELSE 0

\* The visits recorded since the initial state, committed or in flight.
NewVisits ==
  Cardinality(visits) + Cardinality({s \in Sessions : txn[s].visit # NULL})
    - (InitialVisits(1) + InitialVisits(2))

MayVisit(c) == profiles[c] # NULL /\ NewVisits < MaxVisits

\* A variant in which the upsert takes no row lock.
StatsRowNeverLocked(s, c) ==
  \E t \in Sessions \ {s} : txn[t].customer_id = Some(c) /\ txn[t].row # NULL /\ t = s

\* The customer_stats row of customer c is locked by a transaction from its
\* upsert (INSERT ... ON CONFLICT DO UPDATE) until it ends.
StatsRowLocked(s, c) ==
  \E t \in Sessions \ {s} : txn[t].customer_id = Some(c) /\ txn[t].row # NULL

\* A reward row is locked by the transaction whose UPDATE changed it.
RewardRowLocked(s, reward_id) ==
  \E t \in Sessions \ {s} : txn[t].claimed = Some(reward_id)

\* A variant of the claiming UPDATE without the status condition.
ClaimMatchesAnyStatus(r, applied_reward_id) == r.id = applied_reward_id

\* handle_new_order: the WHERE clause of the claiming UPDATE, evaluated on
\* the latest committed version of the row.
ClaimMatches(r, applied_reward_id) ==
  r.id = applied_reward_id /\ r.status = "available"

\* handle_new_order: the SET clause of the claiming UPDATE.
ClaimedRow(r, order_id, t) ==
  [r EXCEPT !.status = "claimed", !.claimed_at = Some(t),
            !.applied_to_order_id = Some(order_id)]

\* A variant of handle_new_order that inserts no visit row.
NoVisitOfOrder(order, id) == IF order.customer_profile_id = NULL THEN NULL ELSE NULL

\* handle_new_order: the visit row inserted for an order that carries a
\* customer reference.
VisitOfOrder(order, id) ==
  IF order.customer_profile_id # NULL
  THEN Some(VisitRow(id, The(order.customer_profile_id), NULL, Some(<<"Order #", order.id>>)))
  ELSE NULL

\* An order row is inserted and handle_new_order starts: the visit insert
\* fires handle_new_visit, whose statements follow.
InsertOrder(s, order) ==
  txn' = [txn EXCEPT ![s] =
    [Idle EXCEPT !.pc = IF order.customer_profile_id # NULL THEN "upsert" ELSE "claim",
                 !.customer_id = order.customer_profile_id,
                 !.order = Some(order),
                 !.visit = VisitOfOrder(order, FreshVisitId)]]

\* StaffDashboard logVisit: a staff member inserts a visit row.
LogVisit(s, c) ==
  /\ txn[s].pc = "idle"
  /\ MayVisit(c)
  /\ txn' = [txn EXCEPT ![s] =
       [Idle EXCEPT !.pc = "upsert", !.customer_id = Some(c),
                    !.visit = Some(VisitRow(FreshVisitId, c, Some("staff"), NULL))]]
  /\ result' = [result EXCEPT ![s] = Returned("pending", NULL)]
  /\ UNCHANGED <<viewed_orders, listed_rewards, tables, system_settings, now>>

\* Order.tsx placeOrder: the signed-in customer c inserts an order row, with
\* a reward picked from the list the page loaded; handle_new_order then
\* inserts the visit row.
PlaceOrder(s, c, selected, subtotal) ==
  LET order == OrderRow(FreshOrderId, Some(c), selected, subtotal)
  IN /\ txn[s].pc = "idle"
     /\ MayVisit(c)
     /\ Cardinality(orders) + Cardinality({t \in Sessions : txn[t].order # NULL}) < MaxOrders
     /\ selected \in {NULL} \cup {Some(r) : r \in LoadRewards(c)}
     /\ order.total_amount > 0
     /\ InsertOrder(s, order)
     /\ result' = [result EXCEPT ![s] = Returned("pending", NULL)]
     /\ UNCHANGED <<viewed_orders, listed_rewards, tables, system_settings, now>>

\* Order.tsx useEffect: the page of the signed-in customer c loads the list
\* of rewards it offers.
LoadRewardsList(s, c) ==
  /\ profiles[c] # NULL
  /\ listed_rewards[s] = {}
  /\ LoadRewards(c) # {}
  /\ listed_rewards' = [listed_rewards EXCEPT ![s] = LoadRewards(c)]
  /\ UNCHANGED <<viewed_orders, tables, system_settings, now, txn, result>>

\* Order.tsx placeOrder on a page that listed its rewards earlier: the
\* customer picks a reward of the list, the order row carries its id and
\* the discount computed from the listed row, and the page is left.
PlaceListedOrder(s, subtotal) ==
  \E selected \in listed_rewards[s] :
    LET order == OrderRow(FreshOrderId, Some(selected.customer_id), Some(selected), subtotal)
    IN /\ txn[s].pc = "idle"
       /\ MayVisit(selected.customer_id)
       /\ Cardinality(orders) + Cardinality({t \in Sessions : txn[t].order # NULL}) < MaxOrders
       /\ order.total_amount > 0
       /\ InsertOrder(s, order)
       /\ listed_rewards' = [listed_rewards EXCEPT ![s] = {}]
       /\ result' = [result EXCEPT ![s] = Returned("pending", NULL)]
       /\ UNCHANGED <<viewed_orders, tables, system_settings, now>>

\* Policy "Authenticated users can create their own orders": the WITH CHECK
\* of an INSERT into orders by the signed-in customer c.
MayInsertOrder(c, order) == profiles[c] # NULL /\ order.customer_profile_id = Some(c)

\* An INSERT into orders sent to the REST interface by the signed-in
\* customer c with the reward id given: the policy checks the customer
\* reference and the foreign key requires the reward row to exist.
InsertOrderRequest(s, c, applied_reward_id, subtotal) ==
  LET order == [id |-> FreshOrderId, status |-> "pending",
                customer_profile_id |-> Some(c), total_amount |-> subtotal,
                applied_reward_id |-> Some(applied_reward_id),
                discount_amount |-> 0, original_amount |-> NULL, delivered_at |-> NULL]
  IN /\ txn[s].pc = "idle"
     /\ MayInsertOrder(c, order)
     /\ MayVisit(c)
     /\ Cardinality(orders) + Cardinality({t \in Sessions : txn[t].order # NULL}) < MaxOrders
     /\ \E r \in rewards : r.id = applied_reward_id
     /\ InsertOrder(s, order)
     /\ result' = [result EXCEPT ![s] = Returned("pending", NULL)]
     /\ UNCHANGED <<viewed_orders, listed_rewards, tables, system_settings, now>>

\* The earlier ordering page (placeOrder): an order row with no customer
\* reference and no reward.
PlaceGuestOrder(s, subtotal) ==
  LET order == OrderRow(FreshOrderId, NULL, NULL, subtotal)
  IN /\ txn[s].pc = "idle"
     /\ Cardinality(orders) + Cardinality({t \in Sessions : txn[t].order # NULL}) < MaxOrders
     /\ InsertOrder(s, order)
     /\ result' = [result EXCEPT ![s] = Returned("pending", NULL)]
     /\ UNCHANGED <<viewed_orders, listed_rewards, tables, system_settings, now>>

\* handle_new_visit: the upsert of the customer's stats row.
Upsert(s) ==
  /\ txn[s].pc = "upsert"
  /\ ~StatsRowLocked(s, The(txn[s].customer_id))
  /\ txn' = [txn EXCEPT ![s].pc = "tier",
                        ![s].row = Some(UpsertStats(customer_stats[The(txn[s].customer_id)]))]
  /\ UNCHANGED <<viewed_orders, listed_rewards, tables, system_settings, now, result>>

\* handle_new_visit: PERFORM update_customer_tier(NEW.customer_id).
EvaluateTier(s) ==
  LET out == UpdateCustomerTier(The(txn[s].customer_id), The(txn[s].row),
                                system_settings, FreshRewardId)
  IN /\ txn[s].pc = "tier"
     /\ txn' = [txn EXCEPT ![s].pc = "milestone",
                           ![s].row = Some(out.row),
                           ![s].inserted = @ \cup out.inserted]
     /\ UNCHANGED <<viewed_orders, listed_rewards, tables, system_settings, now, result>>

\* handle_new_visit: PERFORM check_milestone_rewards(NEW.customer_id).
EvaluateMilestone(s) ==
  LET c == The(txn[s].customer_id)
      inserted == CheckMilestoneRewards(c, The(txn[s].row), rewards \cup txn[s].inserted,
                                        system_settings, FreshRewardId)
  IN /\ txn[s].pc = "milestone"
     /\ ~MilestoneFault(The(txn[s].row).total_visits, MilestoneFrequencyOf(system_settings))
     /\ txn' = [txn EXCEPT ![s].pc = IF txn[s].order = NULL THEN "commit" ELSE "claim",
                           ![s].inserted = @ \cup inserted]
     /\ UNCHANGED <<viewed_orders, listed_rewards, tables, system_settings, now, result>>

\* A variant of the failure in which the Visit row inserted before the
\* evaluators ran stays in the table.
RollbackKeepingVisit(s) ==
  /\ txn[s].pc = "milestone"
  /\ MilestoneFault(The(txn[s].row).total_visits, MilestoneFrequencyOf(system_settings))
  /\ visits' = visits \cup txn[s].visit
  /\ txn' = [txn EXCEPT ![s] = Idle]
  /\ result' = [result EXCEPT ![s] = Returned("error", NULL)]
  /\ UNCHANGED <<viewed_orders, listed_rewards, profiles, user_roles, customer_stats, rewards, referrals, orders,
                 system_settings, now>>

\* check_milestone_rewards raises: the statement fails and the whole
\* transaction, the triggering insert included, is rolled back.
Rollback(s) ==
  /\ txn[s].pc = "milestone"
  /\ MilestoneFault(The(txn[s].row).total_visits, MilestoneFrequencyOf(system_settings))
  /\ txn' = [txn EXCEPT ![s] = Idle]
  /\ result' = [result EXCEPT ![s] = Returned("error", NULL)]
  /\ UNCHANGED <<viewed_orders, listed_rewards, tables, system_settings, now>>

\* handle_new_order: the auto-claim of the applied reward.
ClaimReward(s) ==
  LET order == The(txn[s].order)
      matched == IF order.applied_reward_id = NULL THEN {}
                 ELSE {r \in rewards : ClaimMatches(r, The(order.applied_reward_id))}
  IN /\ txn[s].pc = "claim"
     /\ order.applied_reward_id # NULL => ~RewardRowLocked(s, The(order.applied_reward_id))
     /\ txn' = [txn EXCEPT ![s].pc = "commit",
                           ![s].claimed = IF matched = {} THEN NULL
                                          ELSE Some(The(matched).id)]
     /\ UNCHANGED <<viewed_orders, listed_rewards, tables, system_settings, now, result>>

\* The transaction commits: its writes become the committed state.
Commit(s) ==
  LET c == The(txn[s].customer_id)
  IN /\ txn[s].pc = "commit"
     /\ customer_stats' = IF txn[s].customer_id = NULL THEN customer_stats
                          ELSE [customer_stats EXCEPT ![c] = txn[s].row]
     /\ visits' = visits \cup txn[s].visit
     /\ orders' = orders \cup txn[s].order
     /\ rewards' = {IF txn[s].claimed = Some(r.id)
                    THEN ClaimedRow(r, The(txn[s].order).id, now) ELSE r : r \in rewards}
                   \cup txn[s].inserted
     /\ txn' = [txn EXCEPT ![s] = Idle]
     /\ result' = [result EXCEPT ![s] = Returned("ok", NULL)]
     /\ UNCHANGED <<viewed_orders, listed_rewards, profiles, user_roles, referrals, system_settings, now>>

\* A variant of the call that also marks the reward it validated as claimed.
ApplyRewardAndClaim(s, _reward_id, _order_total) ==
  /\ txn[s].pc = "idle"
  /\ result' = [result EXCEPT ![s] =
       Returned("applied",
                Some([reward_id |-> _reward_id, order_total |-> _order_total, at |-> now,
                      out |-> ApplyRewardToOrder(rewards, _reward_id, _order_total, now)]))]
  /\ rewards' = {IF r \in ValidReward(rewards, _reward_id, now)
                 THEN [r EXCEPT !.status = "claimed", !.claimed_at = Some(now)] ELSE r :
                 r \in rewards}
  /\ UNCHANGED <<viewed_orders, listed_rewards, profiles, user_roles, customer_stats, visits, referrals, orders,
                 system_settings, now, txn>>

\* apply_reward_to_order called with a reward id and an order total.
ApplyReward(s, _reward_id, _order_total) ==
  /\ txn[s].pc = "idle"
  /\ result' = [result EXCEPT ![s] =
       Returned("applied",
                Some([reward_id |-> _reward_id, order_total |-> _order_total, at |-> now,
                      out |-> ApplyRewardToOrder(rewards, _reward_id, _order_total, now)]))]
  /\ UNCHANGED <<viewed_orders, listed_rewards, tables, system_settings, now, txn>>

\* Auth signUp: a row is inserted into auth.users and handle_new_user runs.
Signup(s, referred_by_code) ==
  LET free == {p \in ProfileIds : profiles[p] = NULL}
      new_profile_id == CHOOSE p \in free : \A q \in free : p <= q
  IN /\ txn[s].pc = "idle"
     /\ free # {}
     /\ \E referral_code \in GeneratedCodes(profiles) :
          LET out == HandleNewUser(new_profile_id, referral_code, referred_by_code,
                                   FreshRewardId)
          IN /\ profiles' = out.profiles
             /\ user_roles' = out.user_roles
             /\ referrals' = out.referrals
             /\ rewards' = out.rewards
     /\ result' = [result EXCEPT ![s] = Returned("ok", NULL)]
     /\ UNCHANGED <<viewed_orders, listed_rewards, customer_stats, visits, orders, system_settings, now, txn>>

\* A variant without the constraint.
NoConstraint(profs, referral_code) == FALSE

\* profiles.referral_code TEXT NOT NULL UNIQUE: an INSERT of a row with a
\* code that a committed profile holds fails with a unique violation.
UniqueViolation(profs, referral_code) ==
  \E p \in ProfileIds : profs[p] # NULL /\ The(profs[p]).referral_code = referral_code

\* Signup of session s under READ COMMITTED, first step: handle_new_user
\* evaluates generate_referral_code() on the profiles committed so far.
GenerateReferralCode(s, referred_by_code) ==
  LET free == {p \in ProfileIds : profiles[p] = NULL}
      pending == {t \in Sessions : txn[t].profile # NULL}
  IN /\ txn[s].pc = "idle"
     /\ Cardinality(free) > Cardinality(pending)
     /\ \E referral_code \in GeneratedCodes(profiles) :
          txn' = [txn EXCEPT ![s] =
                    [Idle EXCEPT !.pc = "signup",
                                 !.profile = Some([referral_code |-> referral_code,
                                                   referred_by_code |-> referred_by_code])]]
     /\ result' = [result EXCEPT ![s] = Returned("pending", NULL)]
     /\ UNCHANGED <<viewed_orders, listed_rewards, tables, system_settings, now>>

\* Signup of session s, second step: the INSERT into profiles with the code
\* generated, the rest of handle_new_user, and the commit; on a unique
\* violation the whole signup is rolled back.
InsertProfile(s) ==
  LET free == {p \in ProfileIds : profiles[p] = NULL}
      new_profile_id == CHOOSE p \in free : \A q \in free : p <= q
      new == The(txn[s].profile)
  IN /\ txn[s].pc = "signup"
     /\ IF UniqueViolation(profiles, new.referral_code)
        THEN /\ result' = [result EXCEPT ![s] = Returned("unique_violation", NULL)]
             /\ UNCHANGED <<profiles, user_roles, referrals, rewards>>
        ELSE LET out == HandleNewUser(new_profile_id, new.referral_code,
                                      new.referred_by_code, FreshRewardId)
             IN /\ profiles' = out.profiles
                /\ user_roles' = out.user_roles
                /\ referrals' = out.referrals
                /\ rewards' = out.rewards
                /\ result' = [result EXCEPT ![s] = Returned("ok", NULL)]
     /\ txn' = [txn EXCEPT ![s] = Idle]
     /\ UNCHANGED <<viewed_orders, listed_rewards, customer_stats, visits, orders, system_settings, now>>

\* A variant of the validating UPDATE that toggles the status.
ToggledRow(r, staff_id, t) ==
  [r EXCEPT !.status = IF r.status = "claimed" THEN "available" ELSE "claimed",
            !.claimed_at = Some(t), !.claimed_by_staff_id = Some(staff_id)]

\* StaffDashboard validateReward: the values the UPDATE sets.
ValidatedRow(r, staff_id, t) ==
  [r EXCEPT !.status = "claimed", !.claimed_at = Some(t),
            !.claimed_by_staff_id = Some(staff_id)]

\* StaffDashboard validateReward: UPDATE rewards SET ... WHERE id = rewardId,
\* one statement in its own transaction; it waits for an order transaction
\* that holds the lock of the row.
ValidateReward(rewardId) ==
  /\ \E r \in rewards : r.id = rewardId
  /\ \A s \in Sessions : txn[s].claimed # Some(rewardId)
  /\ rewards' = {IF r.id = rewardId THEN ValidatedRow(r, "staff", now) ELSE r : r \in rewards}
  /\ UNCHANGED <<viewed_orders, listed_rewards, profiles, user_roles, customer_stats, visits, referrals, orders,
                 system_settings, now, txn, result>>

\* Staff dashboard loadActiveOrders: the orders the query returns, which
\* become the session's view.
ActiveOrders(ords) == {o \in ords : o.status \in {"pending", "preparing"}}

\* Staff dashboard: the view is loaded, on mount or on a realtime event.
LoadActiveOrders(s) ==
  /\ viewed_orders' = [viewed_orders EXCEPT ![s] = ActiveOrders(orders)]
  /\ UNCHANGED <<tables, system_settings, now, txn, result, listed_rewards>>

\* Staff dashboard: the button the view shows for an order.
ButtonStatus(order) == IF order.status = "pending" THEN "preparing" ELSE "delivered"

\* updateOrderStatus: the values the UPDATE sets.
UpdatedOrder(o, newStatus, t) ==
  [o EXCEPT !.status = newStatus,
            !.delivered_at = IF newStatus = "delivered" THEN Some(t) ELSE @]

\* Staff dashboard updateOrderStatus(orderId, newStatus), called from the
\* button of an order of the session's view: UPDATE orders SET ... WHERE
\* id = orderId, then the view is loaded again.
UpdateOrderStatus(s, orderId) ==
  \E shown \in viewed_orders[s] :
    LET newStatus == ButtonStatus(shown)
        updated == {IF o.id = orderId THEN UpdatedOrder(o, newStatus, now) ELSE o : o \in orders}
    IN /\ shown.id = orderId
       /\ orders' = updated
       /\ viewed_orders' = [viewed_orders EXCEPT ![s] = ActiveOrders(updated)]
       /\ result' = [result EXCEPT ![s] = Returned(newStatus, Some(orderId))]
       /\ UNCHANGED <<profiles, user_roles, customer_stats, visits, rewards, referrals,
                      system_settings, now, txn, listed_rewards>>

\* ------------------------------------------------- staff registration form
\* CustomerRegistrationForm handleSubmit: the reward rows inserted when the
\* referral code resolves to a referrer, one for the referrer and one for
\* the new customer.
RegistrationRewards(id, referrer_id, new_profile_id) ==
  {RewardRow(id, referrer_id, "referral", <<"Referral Reward">>, NULL, TRUE, NULL, NULL),
   RewardRow(id + 1, new_profile_id, "referral", <<"Welcome Referral Bonus">>,
             NULL, TRUE, NULL, NULL)}

\* CustomerRegistrationForm handleSubmit: staff insert a profile, its stats
\* row with 0 visits and, when the code typed resolves to a referrer, a
\* referral row and the referral rewards.
RegisterCustomer(s, referral_code, referred_by_code) ==
  LET free == {p \in ProfileIds : profiles[p] = NULL}
      new_profile_id == CHOOSE p \in free : \A q \in free : p <= q
      profs == [profiles EXCEPT ![new_profile_id] =
                  Some(ProfileRow(new_profile_id, referral_code, referred_by_code))]
      referrer == IF referred_by_code # NULL
                  THEN ReferrerProfileId(profs, referred_by_code) ELSE NULL
  IN /\ Quiet
     /\ free # {}
     /\ IF UniqueViolation(profiles, referral_code)
        THEN /\ result' = [result EXCEPT ![s] = Returned("unique_violation", NULL)]
             /\ UNCHANGED <<profiles, customer_stats, referrals, rewards>>
        ELSE /\ profiles' = profs
             /\ customer_stats' = [customer_stats EXCEPT ![new_profile_id] =
                                     Some(StatsRow(0, "bronze"))]
             /\ referrals' = IF referrer = NULL THEN referrals
                             ELSE referrals \cup
                               {[referrer_id |-> The(referrer), referred_id |-> new_profile_id,
                                 referral_code |-> The(referred_by_code),
                                 reward_granted |-> FALSE]}
             /\ rewards' = IF referrer = NULL THEN rewards
                           ELSE rewards \cup
                             RegistrationRewards(FreshRewardId, The(referrer), new_profile_id)
             /\ result' = [result EXCEPT ![s] = Returned("registered", Some(new_profile_id))]
     /\ UNCHANGED <<user_roles, visits, orders, system_settings, now, txn, viewed_orders, listed_rewards>>

\* ------------------------------------------------------ demo data generator
\* generateDemoData: the numbers of order rows and of visit rows it inserts.
DemoOrders == 20
DemoVisits == 15

\* The greatest id in use, 0 when there is none.
LastId(used) == IF used = {} THEN 0 ELSE CHOOSE m \in used : \A x \in used : x <= m

\* handle_new_visit for one more visit row of customer c, on the stats row
\* and the rewards the statement has produced so far.
HandleNewVisit(c, state, settings) ==
  LET tier == UpdateCustomerTier(c, UpsertStats(state.row), settings,
                                 LastId({r.id : r \in state.rewards}) + 1)
      tiered == state.rewards \cup tier.inserted
      milestone == CheckMilestoneRewards(c, tier.row, tiered, settings,
                                         LastId({r.id : r \in tiered}) + 1)
  IN [row |-> Some(tier.row), rewards |-> tiered \cup milestone]

\* n inserts into visits for customer c in one statement: handle_new_visit
\* runs for the first row, then for the others on what it left.
RECURSIVE VisitCascade(_, _, _, _)
VisitCascade(c, state, settings, n) ==
  IF n = 0 THEN state
  ELSE The({VisitCascade(c, after, settings, n - 1) :
              after \in {HandleNewVisit(c, state, settings)}})

\* A variant of the stats upsert that resolves the conflict on customer_id
\* and overwrites the row.
DemoStatsOverwritten(existing) ==
  IF existing = NULL THEN Some(StatsRow(15, "silver")) ELSE Some(StatsRow(15, "silver"))

\* generateDemoData: upsert of {customer_id, total_visits: 15, current_tier:
\* 'silver'} with the conflict target left to the primary key id: a new row
\* when the customer has none, a unique violation on customer_id, which the
\* caller does not look at, when the customer has one.
DemoStats(existing) ==
  IF existing = NULL THEN Some(StatsRow(15, "silver")) ELSE existing

\* generateDemoData: an order row it inserts.
DemoOrderRow(id, customer_profile_id, total_amount) ==
  [id |-> id, status |-> "delivered", customer_profile_id |-> Some(customer_profile_id),
   total_amount |-> total_amount, applied_reward_id |-> NULL, discount_amount |-> 0,
   original_amount |-> NULL, delivered_at |-> Some(now)]

\* generateDemoData: the reward rows it inserts.
DemoRewards(id, c) ==
  LET claimed(r) == [r EXCEPT !.status = "claimed", !.claimed_at = Some(now)]
  IN {claimed(RewardRow(id, c, "milestone", <<"6 Visits Reward">>, Some(6), FALSE, NULL, NULL)),
      claimed(RewardRow(id + 1, c, "milestone", <<"12 Visits Reward">>, Some(12), FALSE,
                        NULL, NULL)),
      claimed(RewardRow(id + 2, c, "tier_upgrade", <<"Silver Tier Upgrade">>, NULL, FALSE,
                        NULL, NULL)),
      [RewardRow(id + 3, c, "birthday", <<"Birthday Reward">>, NULL, FALSE, NULL, NULL)
         EXCEPT !.is_birthday_reward = TRUE],
      RewardRow(id + 4, c, "milestone", <<"18 Visits Reward">>, Some(18), FALSE, NULL, NULL),
      RewardRow(id + 5, c, "referral", <<"Referral Bonus">>, NULL, TRUE, NULL, NULL)}

\* The number of times the demo data were generated.
DemoRuns == Cardinality({r \in rewards : r.is_birthday_reward})

\* generateDemoData: one request that inserts n visit rows for customer c,
\* numbered from first_id, directly (notes of the demo) or through the order
\* rows given. The triggers run for every row; with a stored frequency of 0
\* the statement fails and leaves nothing, and the caller goes on.
DemoInsert(c, n, inserted_orders, inserted_visits) ==
  LET fault == MilestoneFault(1, MilestoneFrequencyOf(system_settings))
  IN \E cascade \in {IF fault THEN [row |-> customer_stats[c], rewards |-> rewards]
                     ELSE VisitCascade(c, [row |-> customer_stats[c], rewards |-> rewards],
                                       system_settings, n)} :
       /\ customer_stats' = [customer_stats EXCEPT ![c] = cascade.row]
       /\ rewards' = cascade.rewards
       /\ orders' = IF fault THEN orders ELSE orders \cup inserted_orders
       /\ visits' = IF fault THEN visits ELSE visits \cup inserted_visits

\* generateDemoData for the signed-in profile c, first request: the upsert
\* of the stats row.
GenerateDemoData(s, c) ==
  /\ Quiet
  /\ profiles[c] # NULL
  /\ DemoRuns < MaxDemoRuns
  /\ customer_stats' = [customer_stats EXCEPT ![c] = DemoStats(customer_stats[c])]
  /\ txn' = [txn EXCEPT ![s] = [Idle EXCEPT !.pc = "demo_orders", !.customer_id = Some(c)]]
  /\ result' = [result EXCEPT ![s] = Returned("pending", NULL)]
  /\ UNCHANGED <<profiles, user_roles, visits, rewards, referrals, orders,
                 system_settings, now, viewed_orders, listed_rewards>>

\* generateDemoData, second request: the insert of the order rows, each of
\* which fires handle_new_order and, through its visit row, handle_new_visit.
DemoInsertOrders(s) ==
  LET c == The(txn[s].customer_id)
  IN /\ txn[s].pc = "demo_orders"
     /\ \E last_order \in {LastId({o.id : o \in orders})},
           last_visit \in {LastId({v.id : v \in visits})},
           total_amount \in Subtotals :
          DemoInsert(c, DemoOrders,
                     {DemoOrderRow(last_order + k, c, total_amount) : k \in 1..DemoOrders},
                     {VisitRow(last_visit + k, c, NULL, Some(<<"Order #", last_order + k>>)) :
                        k \in 1..DemoOrders})
     /\ txn' = [txn EXCEPT ![s].pc = "demo_visits"]
     /\ UNCHANGED <<profiles, user_roles, referrals, system_settings, now, result,
                    viewed_orders, listed_rewards>>

\* generateDemoData, third request: the insert of the visit rows.
DemoInsertVisits(s) ==
  LET c == The(txn[s].customer_id)
  IN /\ txn[s].pc = "demo_visits"
     /\ \E last_visit \in {LastId({v.id : v \in visits})} :
          DemoInsert(c, DemoVisits, {},
                     {VisitRow(last_visit + k, c, NULL, Some(<<"Demo visit ", k>>)) :
                        k \in 1..DemoVisits})
     /\ txn' = [txn EXCEPT ![s].pc = "demo_rewards"]
     /\ UNCHANGED <<profiles, user_roles, referrals, system_settings, now, result,
                    viewed_orders, listed_rewards>>

\* generateDemoData, last request: the insert of the reward rows.
DemoInsertRewards(s) ==
  LET c == The(txn[s].customer_id)
  IN /\ txn[s].pc = "demo_rewards"
     /\ rewards' = rewards \cup DemoRewards(LastId({r.id : r \in rewards}) + 1, c)
     /\ txn' = [txn EXCEPT ![s] = Idle]
     /\ result' = [result EXCEPT ![s] = Returned("generated", Some(c))]
     /\ UNCHANGED <<profiles, user_roles, customer_stats, visits, referrals, orders,
                    system_settings, now, viewed_orders, listed_rewards>>

\* SystemConfiguration updateSetting: UPDATE system_settings SET
\* setting_value = value WHERE setting_key = key.
UpdateSetting(settings, key, value) ==
  IF settings[key] = NULL THEN settings ELSE [settings EXCEPT ![key] = Some(value)]

\* SystemConfiguration handleSaveTierThresholds
SaveTierThresholds(tier_thresholds) ==
  /\ system_settings' = UpdateSetting(system_settings, "tier_thresholds", tier_thresholds)
  /\ system_settings' # system_settings
  /\ UNCHANGED <<viewed_orders, listed_rewards, tables, now, txn, result>>

\* SystemConfiguration handleSaveGraduationRewards
SaveGraduationRewards(tier_graduation_rewards) ==
  /\ system_settings' =
       UpdateSetting(system_settings, "tier_graduation_rewards", tier_graduation_rewards)
  /\ system_settings' # system_settings
  /\ UNCHANGED <<viewed_orders, listed_rewards, tables, now, txn, result>>

\* SystemConfiguration handleSaveOtherRewards
SaveOtherRewards(other) ==
  /\ system_settings' =
       UpdateSetting(
         UpdateSetting(
           UpdateSetting(
             UpdateSetting(system_settings, "milestone_frequency", other.milestone_frequency),
             "milestone_reward_value", other.milestone_reward_value),
           "referral_reward_value", other.referral_reward_value),
         "reward_expiration_days", other.reward_expiration_days)
  /\ system_settings' # system_settings
  /\ UNCHANGED <<viewed_orders, listed_rewards, tables, now, txn, result>>

\* Time passes (between transactions).
Tick ==
  /\ Quiet
  /\ now < MaxNow
  /\ now' = now + ExpirationDays \div 2
  /\ UNCHANGED <<viewed_orders, listed_rewards, tables, system_settings, txn, result>>

\* ------------------------------------------------------------ initial state
\* The settings rows the migrations insert.
InitialSettings ==
  [tier_thresholds |-> Some(DefaultTierThresholds),
   tier_graduation_rewards |-> Some(DefaultGraduationRewards),
   milestone_frequency |-> Some(6),
   milestone_reward_value |-> Some(1000),
   referral_reward_value |-> Some(1500),
   reward_expiration_days |-> Some(30)]

\* The reward of milestone 6 that customer 2 holds, unlocked 15 days ago.
InitialReward ==
  [id |-> 1, customer_id |-> 2, reward_type |-> "milestone",
   reward_title |-> <<"Milestone Reward - ", 6, " Visits!">>,
   milestone_visits |-> Some(6),
   is_birthday_reward |-> FALSE, is_referral_reward |-> FALSE,
   status |-> "available", reward_value |-> Some(1000),
   discount_percentage |-> NULL, minimum_order_value |-> Some(0),
   expiration_date |-> Some(ExpirationDays \div 2), claimed_at |-> NULL,
   claimed_by_staff_id |-> NULL, applied_to_order_id |-> NULL]

\* Two customers have signed up.  Customer 1 has never visited; customer 2
\* has visited 9 times and holds the reward rows given.
Start(settings, stored) ==
  /\ profiles = [p \in ProfileIds |->
       IF p = 1 THEN Some(ProfileRow(1, "AAAA1111", NULL))
       ELSE IF p = 2 THEN Some(ProfileRow(2, "BBBB2222", NULL))
       ELSE NULL]
  /\ user_roles = {<<1, "customer">>, <<2, "customer">>}
  /\ customer_stats = [p \in ProfileIds |->
       IF p = 2 THEN Some(StatsRow(InitialVisits(2), "bronze")) ELSE NULL]
  /\ visits = {VisitRow(i, 2, Some("staff"), NULL) : i \in 1..InitialVisits(2)}
  /\ rewards = stored
  /\ referrals = {}
  /\ orders = {}
  /\ system_settings = settings
  /\ now = 0
  /\ txn = [s \in Sessions |-> Idle]
  /\ result = [s \in Sessions |-> Returned("none", NULL)]
  /\ viewed_orders = [s \in Sessions |-> {}]
  /\ listed_rewards = [s \in Sessions |-> {}]

\* The state after the migrations, with the default settings.
Init == Start(InitialSettings, {InitialReward})

\* ------------------------------------------------------ the engine, serially
\* check_milestone_rewards invoked again for a customer, outside a visit.
InvokeMilestoneEvaluator(s, c) ==
  LET inserted == IF customer_stats[c] = NULL THEN {}
                  ELSE CheckMilestoneRewards(c, The(customer_stats[c]), rewards,
                                             system_settings, FreshRewardId)
  IN /\ txn[s].pc = "idle"
     /\ profiles[c] # NULL
     /\ customer_stats[c] # NULL =>
          ~MilestoneFault(The(customer_stats[c]).total_visits,
                          MilestoneFrequencyOf(system_settings))
     /\ rewards' = rewards \cup inserted
     /\ result' = [result EXCEPT ![s] = Returned("evaluated", Some(c))]
     /\ UNCHANGED <<viewed_orders, listed_rewards, profiles, user_roles, customer_stats, visits, referrals, orders,
                    system_settings, now, txn>>

\* One transaction at a time: a call starts when no transaction is in flight.
Next ==
  \/ \E c \in ProfileIds : Quiet /\ LogVisit("s1", c)
  \/ Upsert("s1")
  \/ EvaluateTier("s1")
  \/ EvaluateMilestone("s1")
  \/ Rollback("s1")
  \/ Commit("s1")
  \/ \E c \in ProfileIds : InvokeMilestoneEvaluator("s1", c)
  \/ \E th \in ThresholdChoices : Quiet /\ SaveTierThresholds(th)
  \/ \E g \in GraduationChoices : Quiet /\ SaveGraduationRewards(g)
  \/ \E o \in OtherRewardChoices : Quiet /\ SaveOtherRewards(o)

Spec == Init /\ [][Next]_vars

\* ------------------------------------------- the Reward Application Engine
\* The values the columns of a stored reward row are drawn from: the columns
\* are nullable and carry no CHECK constraint.
RewardValues == {NULL, Some(-500), Some(1000), Some(5000)}
Percentages == {NULL, Some(-10), Some(15), Some(150)}
MinimumOrderValues == {NULL, Some(0), Some(5000)}
ExpirationDates == {NULL, Some(ExpirationDays \div 2), Some(ExpirationDays)}
OrderTotals == {0, 800, 810, 2500, 5000}

StoredRewards ==
  {[InitialReward EXCEPT !.status = st, !.reward_value = rv, !.discount_percentage = pct,
                         !.minimum_order_value = mov, !.expiration_date = exp,
                         !.claimed_at = IF st = "claimed" THEN Some(0) ELSE NULL] :
     st \in {"available", "claimed"}, rv \in RewardValues, pct \in Percentages,
     mov \in MinimumOrderValues, exp \in ExpirationDates}

\* The initial state, with customer 2 holding any one stored reward.
InitApply == \E r \in StoredRewards : Start(InitialSettings, {r})

\* Calls of apply_reward_to_order, for the stored reward and for an id no
\* row holds, as time passes.
NextApply ==
  \/ \E _reward_id \in {1, 2}, _order_total \in OrderTotals :
       ApplyReward("s1", _reward_id, _order_total)
  \/ Tick

SpecApply == InitApply /\ [][NextApply]_vars

\* ------------------------------------------------------------------ signup
\* New users sign up, with or without a referral code, while an admin saves
\* the reward settings.
NextSignup ==
  \/ \E referred_by_code \in {NULL} \cup {Some(code) : code \in Codes} :
       Signup("s1", referred_by_code)
  \/ \E o \in OtherRewardChoices : SaveOtherRewards(o)

\* The state after the migrations, the referral_reward_value row being
\* present or not.
InitSignup ==
  \E value \in {NULL, Some(DefaultReferralRewardValue)} :
    Start([InitialSettings EXCEPT !.referral_reward_value = value], {InitialReward})

SpecSignup == InitSignup /\ [][NextSignup]_vars

\* ------------------------------------------------- concurrent transactions
\* The settings an admin saved before the sessions start.
InitConc ==
  \E th \in ThresholdChoices, o \in OtherRewardChoices :
    Start([InitialSettings EXCEPT !.tier_thresholds = Some(th),
                                  !.milestone_frequency = Some(o.milestone_frequency),
                                  !.milestone_reward_value = Some(o.milestone_reward_value)],
          {InitialReward})

\* Two sessions insert visits and orders; their transactions interleave
\* statement by statement.
NextConc ==
  \E s \in Sessions :
    \/ \E c \in InitialProfiles : LogVisit(s, c)
    \/ \E c \in InitialProfiles, subtotal \in Subtotals :
         \E selected \in {NULL} \cup {Some(r) : r \in LoadRewards(c)} :
           PlaceOrder(s, c, selected, subtotal)
    \/ Upsert(s)
    \/ EvaluateTier(s)
    \/ EvaluateMilestone(s)
    \/ Rollback(s)
    \/ ClaimReward(s)
    \/ Commit(s)

SpecConc == InitConc /\ [][NextConc]_vars

\* ------------------------------------------------------------------ orders
\* One session inserts orders, with and without a customer reference, and
\* visits, under the settings an admin saved before.
NextOrder ==
  \/ \E c \in InitialProfiles : LogVisit("s1", c)
  \/ \E c \in InitialProfiles, subtotal \in Subtotals :
       \E selected \in {NULL} \cup {Some(r) : r \in LoadRewards(c)} :
         PlaceOrder("s1", c, selected, subtotal)
  \/ \E subtotal \in Subtotals : PlaceGuestOrder("s1", subtotal)
  \/ Upsert("s1")
  \/ EvaluateTier("s1")
  \/ EvaluateMilestone("s1")
  \/ Rollback("s1")
  \/ ClaimReward("s1")
  \/ Commit("s1")

SpecOrder == InitConc /\ [][NextOrder]_vars

\* ------------------------------------------------------- absent settings
SettingKeys ==
  {"tier_thresholds", "tier_graduation_rewards", "milestone_frequency",
   "milestone_reward_value", "referral_reward_value"}

\* The rows of system_settings the migrations insert, but for the keys in
\* absent, which have no row.
SettingsWithout(absent) ==
  [key \in DOMAIN InitialSettings |-> IF key \in absent THEN NULL ELSE InitialSettings[key]]

\* No key, one key or every key is absent from system_settings.
InitDefaults ==
  \E absent \in {{}, SettingKeys} \cup {{key} : key \in SettingKeys} :
    Start(SettingsWithout(absent), {InitialReward})

\* Visits and signups, one after the other.
NextDefaults ==
  \/ \E c \in ProfileIds : LogVisit("s1", c)
  \/ Upsert("s1")
  \/ EvaluateTier("s1")
  \/ EvaluateMilestone("s1")
  \/ Commit("s1")
  \/ \E referred_by_code \in {NULL, Some("AAAA1111")} : Signup("s1", referred_by_code)

SpecDefaults == InitDefaults /\ [][NextDefaults]_vars

\* ------------------------------------------------------------ reward claims
\* Two sessions of the customers place orders with the rewards they hold
\* while staff validate rewards from the dashboard.
NextClaim ==
  \/ \E s \in Sessions, c \in InitialProfiles, subtotal \in Subtotals :
       \E selected \in {NULL} \cup {Some(r) : r \in LoadRewards(c)} :
         PlaceOrder(s, c, selected, subtotal)
  \/ \E s \in Sessions : Upsert(s)
  \/ \E s \in Sessions : EvaluateTier(s)
  \/ \E s \in Sessions : EvaluateMilestone(s)
  \/ \E s \in Sessions : ClaimReward(s)
  \/ \E s \in Sessions : Commit(s)
  \/ \E r \in rewards : ValidateReward(r.id)
  \/ Tick

SpecClaim == Init /\ [][NextClaim]_vars

\* --------------------------------------------------------- listed rewards
\* Customers open the ordering page, which lists their rewards, and order
\* from it later; staff log visits and validate rewards, and time passes.
NextListed ==
  \/ \E s \in Sessions, c \in InitialProfiles : LoadRewardsList(s, c)
  \/ \E s \in Sessions, subtotal \in Subtotals : PlaceListedOrder(s, subtotal)
  \/ \E c \in InitialProfiles : LogVisit("s1", c)
  \/ \E s \in Sessions : Upsert(s)
  \/ \E s \in Sessions : EvaluateTier(s)
  \/ \E s \in Sessions : EvaluateMilestone(s)
  \/ \E s \in Sessions : ClaimReward(s)
  \/ \E s \in Sessions : Commit(s)
  \/ \E r \in rewards : ValidateReward(r.id)
  \/ Tick

SpecListed == Init /\ [][NextListed]_vars

\* ---------------------------------------------------- order insert requests
\* Signed-in customers send order inserts that name any reward row, while
\* staff log visits and customers order from the page.
NextRequests ==
  \/ \E s \in Sessions, c \in InitialProfiles, r \in rewards, subtotal \in Subtotals :
       InsertOrderRequest(s, c, r.id, subtotal)
  \/ \E s \in Sessions, c \in InitialProfiles, subtotal \in Subtotals :
       \E selected \in {NULL} \cup {Some(r) : r \in LoadRewards(c)} :
         PlaceOrder(s, c, selected, subtotal)
  \/ \E c \in InitialProfiles : LogVisit("s1", c)
  \/ \E s \in Sessions : Upsert(s)
  \/ \E s \in Sessions : EvaluateTier(s)
  \/ \E s \in Sessions : EvaluateMilestone(s)
  \/ \E s \in Sessions : ClaimReward(s)
  \/ \E s \in Sessions : Commit(s)

SpecRequests == Init /\ [][NextRequests]_vars

\* ------------------------------------------------------- order lifecycle
\* Customers place orders; two staff sessions load their dashboards and
\* press the buttons their views show.
NextStaff ==
  \/ \E subtotal \in Subtotals : PlaceGuestOrder("s1", subtotal)
  \/ ClaimReward("s1")
  \/ Commit("s1")
  \/ \E s \in Sessions : LoadActiveOrders(s)
  \/ \E s \in Sessions, o \in orders : UpdateOrderStatus(s, o.id)

SpecStaff == Init /\ [][NextStaff]_vars

\* -------------------------------------------------------- account creation
\* New users sign up and staff register customers, with or without a
\* referral code, while an admin saves the reward settings.
NextAccounts ==
  \/ \E referred_by_code \in {NULL} \cup {Some(code) : code \in Codes} :
       Signup("s1", referred_by_code)
  \/ \E referral_code \in Codes, referred_by_code \in {NULL} \cup {Some(code) : code \in Codes} :
       RegisterCustomer("s1", referral_code, referred_by_code)
  \/ \E o \in OtherRewardChoices : SaveOtherRewards(o)

SpecAccounts == Init /\ [][NextAccounts]_vars

\* ---------------------------------------------------------- referral codes
\* Two users sign up at the same time and staff register customers; every
\* referral code the generator or the form may produce is tried.
NextCodes ==
  \/ \E s \in Sessions, referred_by_code \in {NULL, Some("AAAA1111")} :
       GenerateReferralCode(s, referred_by_code)
  \/ \E s \in Sessions : InsertProfile(s)
  \/ \E referral_code \in Codes, referred_by_code \in {NULL, Some("AAAA1111")} :
       RegisterCustomer("s1", referral_code, referred_by_code)

SpecCodes == Init /\ [][NextCodes]_vars

\* --------------------------------------------- registration and demo data
\* Staff log visits and register a customer, customer 2 orders, and an
\* admin generates demo data for a profile.
NextDemo ==
  \/ \E c \in ProfileIds \ {2} : LogVisit("s1", c)
  \/ \E subtotal \in Subtotals : PlaceOrder("s1", 2, NULL, subtotal)
  \/ Upsert("s1")
  \/ EvaluateTier("s1")
  \/ EvaluateMilestone("s1")
  \/ ClaimReward("s1")
  \/ Commit("s1")
  \/ \E referred_by_code \in {NULL, Some("AAAA1111")} :
       RegisterCustomer("s1", "CCCC3333", referred_by_code)
  \/ \E c \in InitialProfiles : GenerateDemoData("s1", c)
  \/ DemoInsertOrders("s1")
  \/ DemoInsertVisits("s1")
  \/ DemoInsertRewards("s1")

SpecDemo == Init /\ [][NextDemo]_vars

\* ======================================================== the properties
\* A step in which the transaction of session s commits.
Commits(s) == txn[s].pc = "commit" /\ txn'[s].pc = "idle"

TotalVisits(c) == IF customer_stats[c] = NULL THEN 0 ELSE The(customer_stats[c]).total_visits

\* The tier stored for customer c; a stats row is created with 'bronze'.
StoredTier(c) == IF customer_stats[c] = NULL THEN "bronze" ELSE The(customer_stats[c]).current_tier

\* The reward rows a step adds, of one kind.
Created(kind) == {r \in rewards' \ rewards : r.reward_type = kind}

\* tierOf(v, T): gold if v >= gold.min, else silver if v >= silver.min, else
\* bronze.
TierOf(v, T) ==
  IF v >= T.gold.min THEN "gold" ELSE IF v >= T.silver.min THEN "silver" ELSE "bronze"

\* C2: immediately after every Visit insert completes, the customer's stored
\* current_tier equals tierOf(total_visits, T) for the thresholds T in force,
\* whatever the thresholds and graduation rewards an admin has saved between
\* visits.
C2_TierEqualsTierOf ==
  [][\A s \in Sessions : Commits(s) =>
       LET row == The(customer_stats'[The(txn[s].customer_id)])
       IN row.current_tier = TierOf(row.total_visits, TierThresholdsOf(system_settings))]_vars

DefinitionFor(old, new, G) ==
  IF old = "bronze" /\ new = "silver" THEN Some(G.bronze_to_silver)
  ELSE IF old = "silver" /\ new = "gold" THEN Some(G.silver_to_gold)
  ELSE NULL

\* Reward row r carries the value of graduation definition d.
BuiltFrom(r, d) ==
  /\ r.reward_title = d.reward_title
  /\ d.reward_type = "fixed" =>
       r.reward_value = Some(d.reward_value) /\ r.discount_percentage = NULL
  /\ d.reward_type = "percentage" =>
       r.reward_value = NULL /\ r.discount_percentage = Some(RoundDiv(d.reward_value, 100))

\* C8: a Visit insert that changes the stored tier creates exactly one
\* tier_upgrade reward, built from the graduation definition configured for
\* that (old tier, new tier) transition; it creates none when the tier is
\* unchanged or no definition is configured for the transition.
C8_GraduationRewardPerTransition ==
  [][\A s \in Sessions : Commits(s) =>
       LET c == The(txn[s].customer_id)
           old == StoredTier(c)
           new == The(customer_stats'[c]).current_tier
           d == DefinitionFor(old, new, GraduationRewardsOf(system_settings))
       IN IF old # new /\ d # NULL
          THEN /\ Cardinality(Created("tier_upgrade")) = 1
               /\ \A r \in Created("tier_upgrade") : r.customer_id = c /\ BuiltFrom(r, The(d))
          ELSE Created("tier_upgrade") = {}]_vars

\* C9: a Visit insert that brings total_visits to v creates exactly one
\* milestone reward (milestone_visits = v, reward_value = the milestone value
\* of Settings, minimum_order_value = 0) if v > 0, v mod f = 0 for the
\* frequency f of Settings and the customer held no non-birthday,
\* non-referral reward with milestone_visits = v; otherwise it creates none.
C9_MilestoneRewardOnVisit ==
  [][\A s \in Sessions : Commits(s) =>
       LET c == The(txn[s].customer_id)
           v == The(customer_stats'[c]).total_visits
           f == Setting(system_settings, "milestone_frequency", 6)
           m == Setting(system_settings, "milestone_reward_value", 1000)
           held == \E r \in rewards : /\ r.customer_id = c /\ r.milestone_visits = Some(v)
                                      /\ ~r.is_birthday_reward /\ ~r.is_referral_reward
       IN IF v > 0 /\ f > 0 /\ v % f = 0 /\ ~held
          THEN /\ Cardinality(Created("milestone")) = 1
               /\ \A r \in Created("milestone") :
                    /\ r.customer_id = c
                    /\ r.milestone_visits = Some(v)
                    /\ r.reward_value = Some(m)
                    /\ r.minimum_order_value = Some(0)
          ELSE Created("milestone") = {}]_vars

\* C9 witness: a visit has just been committed for a customer whose count is
\* a multiple of the saved frequency 2, and the reward of that count carries
\* the saved value.
C9_Witness ==
  \E c \in ProfileIds :
    /\ result["s1"] = Returned("ok", NULL)
    /\ system_settings["milestone_frequency"] = Some(2)
    /\ TotalVisits(c) % 2 = 0
    /\ \E r \in rewards : /\ r.customer_id = c
                          /\ r.milestone_visits = Some(TotalVisits(c))
                          /\ r.reward_value = system_settings["milestone_reward_value"]

\* The calls of apply_reward_to_order that have returned.
Applied == {The(result[s].applied) : s \in {t \in Sessions : result[t].outcome = "applied"}}

\* C4: for any storable reward and any subtotal s >= 0, the Reward
\* Application Engine returns a discount between 0 and s.
C4_DiscountWithinSubtotal ==
  \A a \in Applied :
    a.order_total >= 0 => 0 <= a.out.discount_amount /\ a.out.discount_amount <= a.order_total

\* The reward row with the id a call was given, if it passes the first
\* check: it exists, is available and does not expire at or before the time
\* of the call.
Usable(a) ==
  {r \in rewards : /\ r.id = a.reward_id
                   /\ r.status = "available"
                   /\ ~(r.expiration_date # NULL /\ The(r.expiration_date) <= a.at)}

Inserted(c) == VisitsOf(c) - InitialVisits(c)

\* C1: for every number N of Visit inserts for one customer, interleaved in
\* any way with the inserts for other customers, the customer's total_visits
\* is its initial value plus N, a missing stats row counting as 0.
C1_TotalVisitsCountsInserts ==
  \A c \in ProfileIds : TotalVisits(c) = InitialVisits(c) + Inserted(c)

\* C1 witness: customer 2 has two new visits, the first visit of customer 1
\* is about to commit, and it was inserted before one of customer 2's.
C1_Witness ==
  \E s \in Sessions :
    /\ txn[s].pc = "commit" /\ txn[s].customer_id = Some(1)
    /\ The(txn[s].row).total_visits = 1
    /\ TotalVisits(2) = InitialVisits(2) + 2
    /\ \E v \in visits : v.customer_id = 2 /\ The(txn[s].visit).id < v.id

\* C5: when two orders referencing the same available reward are inserted
\* concurrently, the first to claim turns the reward from available to
\* claimed with applied_to_order_id its own id, and the other insert leaves
\* the reward row as it is.
C5_OneOrderClaims ==
  [][\A s \in Sessions :
       (Commits(s) /\ txn[s].order # NULL /\ The(txn[s].order).applied_reward_id # NULL) =>
         LET order == The(txn[s].order)
         IN \A r \in rewards : r.id = The(order.applied_reward_id) =>
              IF r.status = "available"
              THEN [r EXCEPT !.status = "claimed", !.claimed_at = Some(now),
                             !.applied_to_order_id = Some(order.id)] \in rewards'
              ELSE r \in rewards']_vars

\* C5 witness: two committed orders reference the same reward, which is
\* claimed for one of them.
C5_Witness ==
  \E o1, o2 \in orders :
    /\ o1.id # o2.id
    /\ o1.applied_reward_id # NULL /\ o1.applied_reward_id = o2.applied_reward_id
    /\ \E r \in rewards : /\ Some(r.id) = o1.applied_reward_id
                          /\ r.status = "claimed"
                          /\ r.applied_to_order_id = Some(o1.id)

\* The handler of a Visit insert for customer c run alone on the committed
\* state: the stats row it leaves and the reward rows it inserts.
SerialVisit(c) ==
  LET tier == UpdateCustomerTier(c, UpsertStats(customer_stats[c]), system_settings, 0)
  IN [row |-> tier.row,
      inserted |-> tier.inserted \cup
        CheckMilestoneRewards(c, tier.row, rewards \cup tier.inserted, system_settings, 0)]

\* C6: concurrent Visit inserts for the same customer are equivalent to
\* running them one after the other: each transaction commits the stats row
\* and the graduation and milestone rewards that the handler run alone on
\* the state committed before it would produce.
C6_ConcurrentVisitsSerial ==
  [][\A s \in Sessions : Commits(s) =>
       LET c == The(txn[s].customer_id)
           created == {r \in rewards' : \A q \in rewards : q.id # r.id}
       IN /\ customer_stats'[c] = Some(SerialVisit(c).row)
          /\ {[r EXCEPT !.id = 0] : r \in created} = SerialVisit(c).inserted
          /\ Cardinality(created) = Cardinality(SerialVisit(c).inserted)]_vars

\* C6 witness: the second of two overlapping Visit inserts for one customer
\* is about to commit, the other having committed after this one began.
C6_Witness ==
  \E s \in Sessions, c \in ProfileIds :
    /\ txn[s].pc = "commit" /\ txn[s].customer_id = Some(c)
    /\ The(txn[s].row).total_visits = InitialVisits(c) + 2
    /\ \E v \in visits : v.customer_id = c /\ The(txn[s].visit).id < v.id

Eligible(a) ==
  {r \in Usable(a) :
     ~(r.minimum_order_value # NULL /\ a.order_total < The(r.minimum_order_value))}

\* q is subtotal * percentage / 100 rounded to a whole cent.
RoundedPercentage(q, subtotal, percentage) == Abs(100 * q - subtotal * percentage) <= 50

\* C11: for an available, unexpired reward whose minimum is met,
\* apply_reward_to_order returns min(reward_value, subtotal) when
\* reward_value is set, whether or not a percentage is set too, and
\* otherwise subtotal * discount_percentage / 100 rounded to the cent and
\* capped at the subtotal when discount_percentage is set.
C11_DiscountComputed ==
  \A a \in Applied : \A r \in Eligible(a) :
    /\ r.reward_value # NULL =>
         a.out = ApplyResult(IF The(r.reward_value) <= a.order_total
                             THEN The(r.reward_value) ELSE a.order_total, NULL)
    /\ (r.reward_value = NULL /\ r.discount_percentage # NULL) =>
         /\ a.out.error_message = NULL
         /\ \E q \in -10000..10000 :
              /\ RoundedPercentage(q, a.order_total, The(r.discount_percentage))
              /\ a.out.discount_amount = (IF q <= a.order_total THEN q ELSE a.order_total)

\* C11 witness: a percentage reward applied to a subtotal whose percentage
\* is not a whole cent (15% of 8.10 is 1.215).
C11_Witness ==
  \E a \in Applied : \E r \in Eligible(a) :
    /\ r.reward_value = NULL /\ r.discount_percentage = Some(15)
    /\ a.order_total = 810 /\ a.out.discount_amount = 122

\* A step in which a call of apply_reward_to_order returns to session s.
Applies(s) == result'[s].outcome = "applied" /\ result'[s] # result[s]

\* C12: apply_reward_to_order changes no state: whatever the reward id and
\* the subtotal, and whether it returns a discount or an error, the reward's
\* status, claimed_at and applied_to_order_id and every other row are the
\* same after the call as before.
C12_ApplyChangesNothing ==
  [][\A s \in Sessions : Applies(s) =>
       /\ rewards' = rewards
       /\ UNCHANGED <<profiles, user_roles, customer_stats, visits, referrals, orders,
                      system_settings>>]_vars

\* C12 witness: a call has returned a discount and the reward it was given
\* is still available and unclaimed.
C12_Witness ==
  \E a \in Applied :
    /\ a.out.error_message = NULL /\ a.out.discount_amount > 0
    /\ \E r \in rewards : /\ r.id = a.reward_id /\ r.status = "available"
                          /\ r.claimed_at = NULL /\ r.applied_to_order_id = NULL

\* The reward rows a step inserts, their ids set aside.
Inserts == {[r EXCEPT !.id = 0] : r \in {q \in rewards' : \A o \in rewards : o.id # q.id}}

\* C13: an Order insert that carries a customer reference inserts exactly
\* one Visit for that customer, total_visits grows by exactly 1 and the tier
\* and milestone evaluation of that visit take effect in the same write; an
\* Order insert without a customer reference inserts no Visit and changes no
\* Customer Stats.
C13_OrderInsertsOneVisit ==
  [][\A s \in Sessions : (Commits(s) /\ txn[s].order # NULL) =>
       LET order == The(txn[s].order)
       IN /\ orders' = orders \cup {order}
          /\ IF order.customer_profile_id # NULL
             THEN LET c == The(order.customer_profile_id)
                  IN /\ Cardinality(visits' \ visits) = 1
                     /\ \A v \in visits' \ visits : v.customer_id = c
                     /\ The(customer_stats'[c]).total_visits = TotalVisits(c) + 1
                     /\ customer_stats' = [customer_stats EXCEPT ![c] = Some(SerialVisit(c).row)]
                     /\ Inserts = SerialVisit(c).inserted
             ELSE visits' = visits /\ customer_stats' = customer_stats /\ Inserts = {}]_vars

\* C13 witness: an order of customer 2 and an order without a customer are
\* persisted, one visit row carries the order's id and customer 2 has one
\* visit more.
C13_Witness ==
  /\ \E o \in orders : o.customer_profile_id = NULL
  /\ \E o \in orders :
       /\ o.customer_profile_id = Some(2)
       /\ \E v \in visits : v.customer_id = 2 /\ v.notes = Some(<<"Order #", o.id>>)
  /\ TotalVisits(2) = InitialVisits(2) + 1
  /\ Cardinality(visits) = InitialVisits(2) + 1

\* C14: when two orders reference the same available reward, the reward is
\* discounted only once: at most one persisted order has a given
\* applied_reward_id together with a non-zero discount_amount.
C14_DiscountedOnce ==
  \A o1, o2 \in orders :
    (/\ o1.applied_reward_id # NULL
     /\ o1.applied_reward_id = o2.applied_reward_id
     /\ o1.discount_amount # 0 /\ o2.discount_amount # 0) => o1 = o2

\* C15: a signup with a referral code that an existing profile R holds
\* creates exactly one Referral record (referrer R, referred the new
\* profile, the code used, reward_granted true) and exactly one referral
\* reward, owned by R, whose reward_value is the referral reward setting
\* (15.00 when the setting is absent); the new customer receives no reward
\* and has no visits counted.
C15_MatchedCodeRewardsReferrer ==
  [][\A p, R \in ProfileIds :
       (/\ profiles[p] = NULL /\ profiles'[p] # NULL
        /\ profiles[R] # NULL
        /\ The(profiles'[p]).referred_by_code = Some(The(profiles[R]).referral_code)) =>
          /\ referrals' \ referrals =
               {[referrer_id |-> R, referred_id |-> p,
                 referral_code |-> The(profiles[R]).referral_code, reward_granted |-> TRUE]}
          /\ Cardinality(rewards' \ rewards) = 1
          /\ \A r \in rewards' \ rewards :
               /\ r.customer_id = R /\ r.is_referral_reward /\ r.reward_type = "referral"
               /\ r.status = "available"
               /\ r.reward_value =
                    IF system_settings["referral_reward_value"] = NULL THEN Some(1500)
                    ELSE system_settings["referral_reward_value"]
          /\ \A r \in rewards' : r.customer_id # p
          /\ customer_stats'[p] = NULL /\ visits' = visits
          /\ <<p, "customer">> \in user_roles']_vars

\* C15 witness: a referral links profile 1 to a new profile, and profile 1
\* holds one referral reward of the value (20.00) the admin saved.
C15_Witness ==
  \E f \in referrals :
    /\ f.referrer_id = 1 /\ f.reward_granted
    /\ profiles[f.referred_id] # NULL
    /\ The(profiles[f.referred_id]).referred_by_code = Some("AAAA1111")
    /\ \E r \in rewards : /\ r.customer_id = 1 /\ r.is_referral_reward
                          /\ r.reward_value = Some(2000)

\* The handler of a Visit insert for customer c run alone on the committed
\* state, reading the given settings instead of the stored ones.
SerialVisitUnder(c, settings) ==
  LET tier == UpdateCustomerTier(c, UpsertStats(customer_stats[c]), settings, 0)
  IN [row |-> tier.row,
      inserted |-> tier.inserted \cup
        CheckMilestoneRewards(c, tier.row, rewards \cup tier.inserted, settings, 0)]

\* Every key present in Settings with the default value the specification
\* lists for it: thresholds 0-9 / 10-19 / 20 and up, a milestone every 6
\* visits worth 10.00, a referral reward of 15.00, and the graduation
\* rewards of the migrations.
PresentDefaults ==
  [tier_thresholds |-> Some(Thresholds(0, 9, 10, 19)),
   tier_graduation_rewards |-> Some(DefaultGraduationRewards),
   milestone_frequency |-> Some(6),
   milestone_reward_value |-> Some(1000),
   referral_reward_value |-> Some(1500),
   reward_expiration_days |-> Some(30)]

Fails(s) == txn[s].pc # "idle" /\ result'[s].outcome = "error"

\* C17: when a step of the cascade triggered by a Visit insert or an Order
\* insert raises a fault, nothing of that write remains: no Visit or Order
\* row, no change of total_visits or of the tier, no new reward and no
\* reward claim; and every committed visit that is counted has had the tier
\* and the milestone evaluation applied to its count.
C17_FaultLeavesNothing ==
  [][\A s \in Sessions :
       /\ Fails(s) =>
            /\ visits' = visits /\ orders' = orders
            /\ customer_stats' = customer_stats /\ rewards' = rewards
            /\ txn'[s] = Idle
       /\ (Commits(s) /\ txn[s].customer_id # NULL) =>
            LET c == The(txn[s].customer_id)
            IN /\ The(customer_stats'[c]).total_visits = TotalVisits(c) + 1
               /\ customer_stats'[c] = Some(SerialVisit(c).row)
               /\ Inserts = SerialVisit(c).inserted
               /\ txn[s].visit \subseteq visits']_vars

\* C17 witness: the insert failed on a milestone frequency of 0, and the
\* tables hold what they held before it.
C17_Witness ==
  /\ result["s1"].outcome = "error"
  /\ system_settings["milestone_frequency"] = Some(0)
  /\ orders = {} /\ rewards = {InitialReward}
  /\ Cardinality(visits) = InitialVisits(2)
  /\ customer_stats[1] = NULL
  /\ customer_stats[2] = Some(StatsRow(InitialVisits(2), "bronze"))

\* The pre-discount subtotal of a persisted order: original_amount, which
\* placeOrder stores when it grants a discount, and else the total charged.
SubtotalOf(order) ==
  IF order.original_amount # NULL THEN The(order.original_amount) ELSE order.total_amount

\* C18: every order persisted with an applied reward stores as
\* discount_amount the discount that apply_reward_to_order returns for that
\* reward and the order's subtotal on the state committed when the order
\* commits, and 0 when the engine returns an error.
C18_StoredDiscountIsEngineDiscount ==
  [][\A s \in Sessions :
       (Commits(s) /\ txn[s].order # NULL) =>
         LET order == The(txn[s].order)
             out == ApplyRewardToOrder(rewards, The(order.applied_reward_id),
                                       SubtotalOf(order), now)
         IN order.applied_reward_id # NULL =>
              /\ order \in orders'
              /\ order.discount_amount =
                   IF out.error_message = NULL THEN out.discount_amount ELSE 0]_vars

\* C19: a Visit insert never fails because of what the Settings Store
\* holds: whatever the administration form has saved (a milestone frequency
\* of 0, thresholds of 0), the insert ends with the Visit row recorded and
\* total_visits incremented.
C19_VisitNeverFailsOnSettings ==
  [][\A s \in Sessions :
       (/\ txn[s].visit # NULL /\ txn[s].order = NULL
        /\ txn[s].pc # "idle" /\ txn'[s].pc = "idle") =>
         LET c == The(txn[s].customer_id)
         IN /\ result'[s].outcome = "ok"
            /\ txn[s].visit \subseteq visits'
            /\ customer_stats'[c] # NULL
            /\ The(customer_stats'[c]).total_visits = TotalVisits(c) + 1]_vars

\* The place of a tier in the order bronze < silver < gold.
TierRank(tier) == IF tier = "gold" THEN 2 ELSE IF tier = "silver" THEN 1 ELSE 0

\* C20: the Tier Evaluator updates in both directions: when the tier
\* computed from total_visits and the thresholds in force is lower than the
\* stored current_tier, because an admin raised the thresholds, the Visit
\* insert sets the stored tier to the computed tier.
C20_DowngradeIsWritten ==
  [][\A s \in Sessions : Commits(s) =>
       LET c == The(txn[s].customer_id)
           row == The(customer_stats'[c])
           computed == TierOf(row.total_visits, TierThresholdsOf(system_settings))
       IN TierRank(computed) < TierRank(StoredTier(c)) => row.current_tier = computed]_vars

\* C21: the status of a reward only changes from available to claimed: no
\* step - the claim of an order, the validation by staff, or any
\* interleaving of them - makes a claimed reward available again or removes
\* it.
C21_ClaimedStaysClaimed ==
  [][\A r \in rewards : r.status = "claimed" =>
       \E q \in rewards' : q.id = r.id /\ q.status = "claimed"]_vars

\* C21 witness: a reward was claimed by an order and then validated by
\* staff, and is claimed.
C21_Witness ==
  \E r \in rewards : /\ r.status = "claimed"
                     /\ r.applied_to_order_id # NULL
                     /\ r.claimed_by_staff_id = Some("staff")

\* The place of a status in the lifecycle pending -> preparing -> delivered.
StatusRank(status) ==
  IF status = "delivered" THEN 2 ELSE IF status = "preparing" THEN 1 ELSE 0

\* C22: the status of an order only moves forward along pending ->
\* preparing -> delivered, and the status of a delivered order never
\* changes, also when two staff sessions update the same order from views
\* loaded earlier.
C22_OrderStatusMovesForward ==
  [][\A o \in orders : \E q \in orders' :
       /\ q.id = o.id
       /\ StatusRank(q.status) >= StatusRank(o.status)]_vars

\* handle_new_visit with its two PERFORM statements exchanged, run alone on
\* the committed state: check_milestone_rewards first, on the upserted row
\* and the committed rewards, then update_customer_tier.
MilestoneThenTier(c) ==
  LET row == UpsertStats(customer_stats[c])
      milestone == CheckMilestoneRewards(c, row, rewards, system_settings, 0)
      tier == UpdateCustomerTier(c, row, system_settings, 0)
  IN [row |-> tier.row, inserted |-> milestone \cup tier.inserted]

\* C23: for every customer state and all settings, the Tier Evaluator
\* followed by the Milestone Evaluator leaves after a visit the stats row
\* and the set of rewards that the two evaluators run in the opposite order
\* would leave.
C23_EvaluatorsCommute ==
  [][\A s \in Sessions : Commits(s) =>
       LET c == The(txn[s].customer_id)
       IN /\ customer_stats'[c] = Some(MilestoneThenTier(c).row)
          /\ Inserts = MilestoneThenTier(c).inserted
          /\ Cardinality(rewards' \ rewards) = Cardinality(MilestoneThenTier(c).inserted)]_vars

\* C23 witness: one visit of customer 1 has raised the tier to gold and
\* reached milestone 2, and both rewards were granted.
C23_Witness ==
  /\ customer_stats[1] = Some(StatsRow(2, "gold"))
  /\ \E r \in rewards : r.customer_id = 1 /\ r.milestone_visits = Some(2)
  /\ \E r \in rewards : /\ r.customer_id = 1 /\ r.reward_type = "tier_upgrade"
                        /\ r.reward_title = <<"Upgraded to Gold Tier!">>

\* C24: total_visits of a customer never decreases and is never reset: on
\* every step - a visit insert, an order insert, a staff registration, the
\* generation of demo data - a stats row that exists still exists and its
\* total_visits is at least what it was.
C24_TotalVisitsNeverDecreases ==
  [][\A c \in ProfileIds : customer_stats[c] # NULL =>
       /\ customer_stats'[c] # NULL
       /\ The(customer_stats'[c]).total_visits >= The(customer_stats[c]).total_visits]_vars

\* C24 witness: demo data were generated once for customer 2, who had a
\* stats row and also placed an order, and every visit counted before the
\* generation is still counted on top of the 35 the generation inserted.
C24_Witness ==
  /\ result["s1"] = Returned("generated", Some(2))
  /\ TotalVisits(2) > InitialVisits(2) + DemoOrders + DemoVisits
  /\ DemoRuns = 1

\* C25: on every account-creation path - the signup trigger and the staff
\* registration form - a step that creates a profile whose referral code
\* resolves to a referrer R creates at most one referral reward, and that
\* reward is owned by R.
C25_AtMostOneReferralReward ==
  [][\A p, R \in ProfileIds :
       (/\ profiles[p] = NULL /\ profiles'[p] # NULL
        /\ profiles[R] # NULL
        /\ The(profiles'[p]).referred_by_code = Some(The(profiles[R]).referral_code)) =>
          LET created == {r \in rewards' \ rewards : r.is_referral_reward}
          IN /\ Cardinality(created) <= 1
             /\ \A r \in created : r.customer_id = R]_vars

\* The referral codes the profiles of the table hold.
HeldCodes(profs) ==
  {The(profs[p]).referral_code : p \in {q \in ProfileIds : profs[q] # NULL}}

\* C26: in every reachable state the profiles have pairwise distinct
\* referral codes, whether they were created by concurrent signups or by
\* the staff registration form, and the code generator never returns a
\* code that a profile holds when it returns.
C26_ReferralCodesDistinct ==
  /\ [](\A p, q \in ProfileIds :
          (p # q /\ profiles[p] # NULL /\ profiles[q] # NULL) =>
            The(profiles[p]).referral_code # The(profiles[q]).referral_code)
  /\ [][\A s \in Sessions :
          (txn[s].profile = NULL /\ txn'[s].profile # NULL) =>
            The(txn'[s].profile).referral_code \notin HeldCodes(profiles)]_vars

\* C26 witness: two signups ran at the same time with the same generated
\* code; one created its profile and the other was refused while the code
\* it had drawn was held by the first.
C26_Witness ==
  /\ result["s1"] = Returned("ok", NULL)
  /\ result["s2"] = Returned("unique_violation", NULL)
  /\ Quiet
  /\ Cardinality({p \in ProfileIds : profiles[p] # NULL}) = Cardinality(InitialProfiles) + 1

\* C27: in every committed state the total_visits of each customer is the
\* number of Visit records of that customer, a customer without a stats
\* row counting as 0, whether the visits came from staff or from orders.
C27_TotalVisitsCountsVisitRecords ==
  \A c \in ProfileIds : TotalVisits(c) = VisitsOf(c)

\* C28: once a reward is claimed its claim record - claimed_at,
\* applied_to_order_id, claimed_by_staff_id - never changes; a staff
\* validation of a reward that an order has already claimed leaves the row
\* as it is.
C28_ClaimRecordNeverChanges ==
  [][\A r \in rewards : r.status = "claimed" =>
       \E q \in rewards' : /\ q.id = r.id
                            /\ q.claimed_at = r.claimed_at
                            /\ q.applied_to_order_id = r.applied_to_order_id
                            /\ q.claimed_by_staff_id = r.claimed_by_staff_id]_vars

\* C29: an Order insert never takes to claimed a reward whose
\* expiration_date is set and in the past when the order is inserted; a
\* reward that expired between being listed and the order being placed
\* stays available and unclaimed.
C29_ExpiredRewardIsNotClaimed ==
  [][\A s \in Sessions : Commits(s) /\ txn[s].order # NULL =>
       \A r \in rewards :
         (/\ r.status = "available"
          /\ r.expiration_date # NULL /\ The(r.expiration_date) < now) =>
           \E q \in rewards' : q.id = r.id /\ q.status = "available"
                                /\ q.applied_to_order_id = NULL]_vars

\* C30: an Order insert claims the reward it references only if the
\* customer who owns the reward is the customer of the order; an order
\* placed for customer A that references an available reward of customer B
\* leaves that reward available.
C30_OnlyOwnRewardIsClaimed ==
  [][\A s \in Sessions : Commits(s) /\ txn[s].order # NULL =>
       \A r \in rewards :
         (/\ r.status = "available"
          /\ The(txn[s].order).customer_profile_id # Some(r.customer_id)) =>
           \E q \in rewards' : q.id = r.id /\ q.status = "available"]_vars

====
